---- MODULE Spec2Model ----
\* Verification model of metaboss' batch action engine as driven by
\* update/token_standard.rs, of the set-token-standard action itself, and of
\* the retried single-shot sends in create/methods.rs.
\*
\* Four specifications:
\*   Spec        the batch run started by set_token_standard_all (repeated
\*               runs, crashes, concurrent workers, progress cache file);
\*   LiveSpec    the same machine with worker fairness (completion);
\*   ActionSpec  one call of set_token_standard_one / SetTokenStandardAll::action;
\*   CreateSpec  create_fungible / create_master_edition with retry().
EXTENDS Integers, Sequences, FiniteSets, TLC

None == "None"

\* ---------------------------------------------------------------- bounds
MaxRetries == 2
MaxRateLimit == 2

\* ------------------------------------------------------- generic helpers
Range(s) == {s[i] : i \in 1..Len(s)}

RECURSIVE Pow(_, _)
Pow(b, e) == IF e = 0 THEN 1 ELSE b * Pow(b, e - 1)

IsPrefix(s, t) == Len(s) =< Len(t) /\ \A i \in 1..Len(s) : s[i] = t[i]

\* =====================================================================
\* update/token_standard.rs : the action
\* =====================================================================

\* Strings that parse as a base58 public key; every other string does not.
ValidPubkeys == {"A", "B", "C"}

Pubkey_from_str(s) ==
    IF s \in ValidPubkeys
    THEN [ok |-> TRUE, value |-> s, e |-> None]
    ELSE [ok |-> FALSE, value |-> None, e |-> "Invalid Base58 string"]

derive_metadata_pda(mint) == <<"metadata", mint>>
derive_edition_pda(mint) == <<"edition", mint>>

ActionFailed(target, reason) == [kind |-> "ActionFailed", target |-> target, reason |-> reason]

\* What the RPC node answers to the three calls of one action call.
RpcAccountAnswers == {[ok |-> TRUE, value |-> "some", e |-> None],
                      [ok |-> TRUE, value |-> "none", e |-> None],
                      [ok |-> FALSE, value |-> None, e |-> "account rpc error"]}
RpcBlockhashAnswers == {[ok |-> TRUE, value |-> "h1", e |-> None],
                        [ok |-> FALSE, value |-> None, e |-> "blockhash rpc error"]}
RpcSendAnswers == {[ok |-> TRUE, value |-> "sig", e |-> None],
                   [ok |-> FALSE, value |-> None, e |-> "send rpc error"]}
RpcAnswers == [account : RpcAccountAnswers, blockhash : RpcBlockhashAnswers, send : RpcSendAnswers]

ActionReturn(ok, sig, err, calls, sent) ==
    [ok |-> ok, sig |-> sig, err |-> err, calls |-> calls, sent |-> sent]

\* Mutant: the failure names the signer instead of the mint account.
StepErrorMut(args, e) == ActionFailed(args.keypair, e)

\* The error a failing step maps to (the .map_err closures).
StepError(args, e) == ActionFailed(args.mint_account, e)

\* Mutant: a failed RPC step does not end the call.
ReturnsOnErrorMut(step) == FALSE

\* Whether a failed RPC step returns at once (the `?` after map_err).
ReturnsOnError(step) == TRUE

\* set_token_standard_one: calls is the ordered list of fallible steps that
\* were performed, sent the list of transactions handed to the node.
set_token_standard_one(args, rpc) ==
    LET mint == Pubkey_from_str(args.mint_account) IN
    IF ~mint.ok
    THEN ActionReturn(FALSE, None, StepError(args, mint.e), <<"from_str">>, <<>>)
    ELSE
    LET update_authority == args.keypair
        metadata_pubkey == derive_metadata_pda(mint.value)
        edition_pubkey == derive_edition_pda(mint.value)
        c1 == <<"from_str", "get_account">>
    IN
    IF ~rpc.account.ok /\ ReturnsOnError("get_account")
    THEN ActionReturn(FALSE, None, StepError(args, rpc.account.e), c1, <<>>)
    ELSE
    LET edition_opt == IF rpc.account.ok /\ rpc.account.value = "some"
                       THEN edition_pubkey ELSE None
        c2 == Append(c1, "get_latest_blockhash")
    IN
    IF ~rpc.blockhash.ok /\ ReturnsOnError("get_latest_blockhash")
    THEN ActionReturn(FALSE, None, StepError(args, rpc.blockhash.e), c2, <<>>)
    ELSE
    LET tx == [metadata |-> metadata_pubkey, update_authority |-> update_authority,
               mint |-> mint.value, edition |-> edition_opt,
               payer |-> update_authority, blockhash |-> rpc.blockhash.value]
        c3 == Append(c2, "send_and_confirm_transaction")
    IN
    IF rpc.send.ok
    THEN ActionReturn(TRUE, rpc.send.value, None, c3, <<tx>>)
    ELSE ActionReturn(FALSE, None, StepError(args, rpc.send.e), c3, <<tx>>)

\* SetTokenStandardAll::action: forwards the run arguments, drops the signature.
action(runArgs, rpc) ==
    LET r == set_token_standard_one([client |-> runArgs.client,
                                     keypair |-> runArgs.keypair,
                                     mint_account |-> runArgs.mint_account], rpc)
    IN [r EXCEPT !.sig = None]


\* =====================================================================
\* update/token_standard.rs : set_token_standard_all
\* =====================================================================
Client == "rpc"
CacheFileName == "cache.json"
IdOrder == <<"A", "B", "C">>
TargetIds == Range(IdOrder)

parse_keypair(keypair, solana_opts) == IF keypair = None THEN "default-keypair" ELSE keypair

\* ------------------------------------------------ Target List Loader (4.1)
RECURSIVE Dedup(_)
Dedup(s) ==
    IF s = <<>> THEN <<>>
    ELSE LET front == Dedup(SubSeq(s, 1, Len(s) - 1))
             last == s[Len(s)]
         IN IF last \in Range(front) THEN front ELSE Append(front, last)

IdsOf(entries) == {e.id : e \in entries}
SeqOfIds(S) == SelectSeq(IdOrder, LAMBDA x : x \in S)

Loaded(ok, value, err) == [ok |-> ok, value |-> value, err |-> err]

\* mint_list: [kind : "none" | "unreadable" | "list", ids : Seq(TargetIds)];
\* fs is the state of the cache file on disk.
parse_mint_list(mint_list, cache_file, fs) ==
    IF mint_list.kind = "list"
    THEN IF Dedup(mint_list.ids) = <<>>
         THEN Loaded(FALSE, <<>>, "InvalidInput")
         ELSE Loaded(TRUE, Dedup(mint_list.ids), None)
    ELSE IF mint_list.kind = "unreadable"
    THEN Loaded(FALSE, <<>>, "InvalidInput")
    ELSE IF cache_file = None
    THEN Loaded(FALSE, <<>>, "InvalidInput")
    ELSE IF fs.st = "ok" /\ fs.entries # {}
    THEN Loaded(TRUE, SeqOfIds(IdsOf(fs.entries)), None)
    ELSE Loaded(FALSE, <<>>, "InvalidInput")

\* Mutant: the loader's error is ignored and the run is started.
MintListFailsMut(ml) == FALSE

\* The `?` of line 86: a loader error leaves set_token_standard_all at once.
MintListFails(ml) == ~ml.ok

\* Mutants: the last target is dropped; one attempt too many; no permits;
\* the cache file is not handed on.
BatchMintListMut(mint_list) == SubSeq(mint_list, 1, Len(mint_list) - 1)
BatchRetriesMut(args) == args.retries + 1
BatchRateLimitMut(args) == 0
BatchCacheFileMut(args) == None

\* Fields of BatchActionArgs taken over from the caller's arguments.
BatchMintList(mint_list) == mint_list
BatchRetries(args) == args.retries
BatchRateLimit(args) == args.rate_limit
BatchCacheFile(args) == args.cache_file

NoBatch == [client |-> Client, keypair |-> None, payer |-> None, mint_list |-> <<>>,
            cache_file |-> None, new_value |-> "NewValue::None",
            rate_limit |-> 0, retries |-> 0]

\* set_token_standard_all up to the call of SetTokenStandardAll::run.
set_token_standard_all(args, fs) ==
    LET keypair == parse_keypair(args.keypair, "solana_opts")
        ml == parse_mint_list(args.mint_list, args.cache_file, fs)
    IN IF MintListFails(ml)
       THEN [started |-> FALSE, err |-> ml.err, batch |-> NoBatch]
       ELSE [started |-> TRUE, err |-> None,
             batch |-> [client |-> Client, keypair |-> keypair, payer |-> None,
                        mint_list |-> BatchMintList(ml.value),
                        cache_file |-> BatchCacheFile(args),
                        new_value |-> "NewValue::None",
                        rate_limit |-> BatchRateLimit(args),
                        retries |-> BatchRetries(args)]]

\* =====================================================================
\* The batch action engine behind SetTokenStandardAll::run
\* =====================================================================

\* ---------------------------------------------------- Progress Cache (4.2)
AbsentFile == [st |-> "absent", entries |-> {}]
CorruptFile == [st |-> "corrupt", entries |-> {}]
OkFile(entries) == [st |-> "ok", entries |-> entries]

load(path, fs) ==
    IF path = None THEN Loaded(TRUE, {}, None)
    ELSE IF fs.st = "corrupt" THEN Loaded(FALSE, {}, "CacheCorrupt")
    ELSE IF fs.st = "absent" THEN Loaded(TRUE, {}, None)
    ELSE Loaded(TRUE, fs.entries, None)

Has(c, id, kind) == \E e \in c : e.id = id /\ e.kind = kind
HasEntry(c, id) == \E e \in c : e.id = id

EntryOf(id, res) ==
    [id |-> id,
     kind |-> IF res.ok THEN "Success" ELSE "Failure",
     error |-> IF res.ok THEN None ELSE res.err.reason]

\* record(): a later entry for the same TargetId replaces the earlier one.
Upsert(c, e) == {x \in c : x.id # e.id} \cup {e}

\* Mutant: record() is entered without waiting for the writer inside.
LockFreeMut(l) == TRUE

\* record() is serialized: a writer enters only when no other holds the cache.
LockFree(l) == l = None

\* Resumability rule: skipped iff the snapshot records Success.
Skips(snap, id) == Has(snap, id, "Success")

\* ------------------------------------------------------ Retry Policy (4.4)
BaseDelay == 250
Factor == 2
Delay(attempt) == BaseDelay * Pow(Factor, attempt - 1)
MayRetry(attemptsMade, retries) == attemptsMade < retries


\* =====================================================================
\* State
\* =====================================================================
VARIABLES
    file,        \* the cache file on disk: AbsentFile, CorruptFile or OkFile(entries)
    prev,        \* TargetIds that reached Succeeded in the preceding run
    args,        \* SetTokenStandardAllArgs of the current call
    concurrency, \* worker pool size of the current run
    targets,     \* the loader's target list of the current call
    batch,       \* BatchActionArgs handed to run
    run,         \* NotStarted, InProgress, Completed, Aborted
    error,       \* the fatal error returned, or None
    snapshot,    \* the cache entries read at the start of the run
    cache,       \* the in-memory progress cache
    tstate,      \* per TargetId: Absent, Pending, Skipped, Running, Succeeded, Failed
    pc,          \* per TargetId: where its worker stands
    results,     \* per TargetId: the results of the attempts made, in order
    delays,      \* per TargetId: the backoff delays slept, in order
    admitted,    \* permits granted in the current rate-limiter window
    lock,        \* the worker inside record(), or None
    buf,         \* per TargetId: the serialized cache its record() is writing
    report,      \* the running BatchReport
    call,        \* the last call of the action made on its own, with its return
    create       \* the create_fungible / create_master_edition call under way

memvars == <<args, concurrency, targets, batch, run, error, snapshot, cache, tstate,
             pc, results, delays, admitted, lock, buf, report>>
batchvars == <<file, prev, args, concurrency, targets, batch, run, error, snapshot, cache,
               tstate, pc, results, delays, admitted, lock, buf, report>>
vars == <<file, prev, args, concurrency, targets, batch, run, error, snapshot, cache,
          tstate, pc, results, delays, admitted, lock, buf, report, call, create>>

\* ------------------------------------------------------------- inputs
Lists == {<<>>, <<"A">>, <<"A", "B">>, <<"B", "A", "B">>, <<"A", "B", "C">>}
MintListInputs == {[kind |-> "none", ids |-> <<>>], [kind |-> "unreadable", ids |-> <<>>]}
                      \cup {[kind |-> "list", ids |-> l] : l \in Lists}
\* A mint list without a cache file is left out: the engine's cache path for
\* that call is not determined by the specification.
ArgsInputs == {a \in [keypair : {None}, mint_list : MintListInputs,
                      cache_file : {None, CacheFileName},
                      rate_limit : 1..MaxRateLimit, retries : 1..MaxRetries] :
                 a.mint_list.kind = "list" => a.cache_file # None}
NoArgs == [keypair |-> None, mint_list |-> [kind |-> "none", ids |-> <<>>],
           cache_file |-> None, rate_limit |-> 0, retries |-> 0]

\* The worker pool sizes a run is started with.
ConcurrencyInputs == {1, 3}

\* The answers of the node a batch attempt can meet. Failures are kept to one
\* kind per attempt: the last attempt the retry budget allows fails at send,
\* every earlier one at get_latest_blockhash.
RpcOk == [account |-> [ok |-> TRUE, value |-> "some", e |-> None],
          blockhash |-> [ok |-> TRUE, value |-> "h1", e |-> None],
          send |-> [ok |-> TRUE, value |-> "sig", e |-> None]]
RpcSendFails == [RpcOk EXCEPT !.send = [ok |-> FALSE, value |-> None, e |-> "send rpc error"]]
RpcBlockhashFails ==
    [RpcOk EXCEPT !.blockhash = [ok |-> FALSE, value |-> None, e |-> "blockhash rpc error"]]
NodeAnswer(healthy, made, budget) ==
    IF healthy THEN RpcOk
    ELSE IF made < budget THEN RpcBlockhashFails
    ELSE RpcSendFails

NoCall == [st |-> "idle", via |-> None, args |-> None, rpc |-> None, ret |-> None]
NoCreate == [op |-> None, pc |-> "idle", blockhash |-> None, signed |-> 0, tx |-> None,
             sends |-> <<>>, outcomes |-> <<>>, slept |-> <<>>, printed |-> <<>>,
             result |-> None]

EmptyReport == [attempted |-> 0, succeeded |-> 0, failed |-> {}]
Terminal == {"Skipped", "Succeeded", "Failed"}
Listed == Range(batch.mint_list)
Active == {t \in TargetIds : tstate[t] = "Running"}
SucceededNow == {t \in TargetIds : tstate[t] = "Succeeded"}

MemReset(r, e, a) ==
    /\ args' = a
    /\ concurrency' = 0
    /\ targets' = <<>>
    /\ batch' = NoBatch
    /\ run' = r
    /\ error' = e
    /\ snapshot' = {}
    /\ cache' = {}
    /\ tstate' = [t \in TargetIds |-> "Absent"]
    /\ pc' = [t \in TargetIds |-> "idle"]
    /\ results' = [t \in TargetIds |-> <<>>]
    /\ delays' = [t \in TargetIds |-> <<>>]
    /\ admitted' = 0
    /\ lock' = None
    /\ buf' = [t \in TargetIds |-> {}]
    /\ report' = EmptyReport

Init ==
    /\ file = AbsentFile
    /\ prev = {}
    /\ args = NoArgs
    /\ concurrency = 0
    /\ targets = <<>>
    /\ batch = NoBatch
    /\ run = "NotStarted"
    /\ error = None
    /\ snapshot = {}
    /\ cache = {}
    /\ tstate = [t \in TargetIds |-> "Absent"]
    /\ pc = [t \in TargetIds |-> "idle"]
    /\ results = [t \in TargetIds |-> <<>>]
    /\ delays = [t \in TargetIds |-> <<>>]
    /\ admitted = 0
    /\ lock = None
    /\ buf = [t \in TargetIds |-> {}]
    /\ report = EmptyReport
    /\ call = NoCall
    /\ create = NoCreate

\* =====================================================================
\* Actions
\* =====================================================================

\* set_token_standard_all is called; on success run() loads the cache, takes
\* the snapshot and partitions the list into Skipped and Pending (4.6 rule 1).
Start(a, c) ==
    /\ run = "NotStarted"
    /\ prev' = prev
    /\ file' = file
    /\ LET r == set_token_standard_all(a, file)
           ld == load(r.batch.cache_file, file)
       IN IF ~r.started
          THEN MemReset("Aborted", r.err, a)
          ELSE IF ~ld.ok
          THEN MemReset("Aborted", ld.err, a)
          ELSE /\ args' = a
               /\ concurrency' = c
               /\ targets' = parse_mint_list(a.mint_list, a.cache_file, file).value
               /\ batch' = r.batch
               /\ run' = "InProgress"
               /\ error' = None
               /\ snapshot' = ld.value
               /\ cache' = ld.value
               /\ tstate' = [t \in TargetIds |->
                               IF t \notin Range(r.batch.mint_list) THEN "Absent"
                               ELSE IF Skips(ld.value, t) THEN "Skipped"
                               ELSE "Pending"]
               /\ pc' = [t \in TargetIds |-> "idle"]
               /\ results' = [t \in TargetIds |-> <<>>]
               /\ delays' = [t \in TargetIds |-> <<>>]
               /\ admitted' = 0
               /\ lock' = None
               /\ buf' = [t \in TargetIds |-> {}]
               /\ report' = EmptyReport

\* The pool takes the next Pending target of the queue when a worker is free.
Dispatch(t) ==
    /\ run = "InProgress"
    /\ tstate[t] = "Pending"
    /\ \E i \in 1..Len(batch.mint_list) :
          /\ batch.mint_list[i] = t
          /\ \A j \in 1..(i - 1) : tstate[batch.mint_list[j]] # "Pending"
    /\ Cardinality(Active) < concurrency
    /\ tstate' = [tstate EXCEPT ![t] = "Running"]
    /\ pc' = [pc EXCEPT ![t] = "acquire"]
    /\ UNCHANGED <<file, prev, args, concurrency, targets, batch, run, error, snapshot,
                   cache, results, delays, admitted, lock, buf, report>>

\* acquire(): the worker waits until the window has a permit left.
Acquire(t) ==
    /\ run = "InProgress"
    /\ pc[t] = "acquire"
    /\ admitted < batch.rate_limit
    /\ admitted' = admitted + 1
    /\ pc' = [pc EXCEPT ![t] = "attempt"]
    /\ UNCHANGED <<file, prev, args, concurrency, targets, batch, run, error, snapshot,
                   cache, tstate, results, delays, lock, buf, report>>

\* The rate limiter's window rolls over.
WindowRoll ==
    /\ run = "InProgress"
    /\ admitted > 0
    /\ admitted' = 0
    /\ UNCHANGED <<file, prev, args, concurrency, targets, batch, run, error, snapshot,
                   cache, tstate, pc, results, delays, lock, buf, report>>

\* One attempt of the Action under the Retry Policy, and the backoff sleep
\* that follows a failure that may be retried.
Attempt(t, healthy) ==
    /\ run = "InProgress"
    /\ pc[t] = "attempt"
    /\ LET made == Len(results[t]) + 1
           res == action([client |-> batch.client, keypair |-> batch.keypair,
                          mint_account |-> t], NodeAnswer(healthy, made, args.retries))
       IN /\ results' = [results EXCEPT ![t] = Append(@, [ok |-> res.ok, err |-> res.err])]
          /\ IF ~res.ok /\ MayRetry(made, batch.retries)
             THEN /\ delays' = [delays EXCEPT ![t] = Append(@, Delay(made))]
                  /\ pc' = pc
             ELSE /\ delays' = delays
                  /\ pc' = [pc EXCEPT ![t] = "settled"]
    /\ UNCHANGED <<file, prev, args, concurrency, targets, batch, run, error, snapshot,
                   cache, tstate, admitted, lock, buf, report>>

\* record(), first half: enter the writer section, update the in-memory map,
\* serialize the full cache for the temporary file.
RecordBegin(t) ==
    /\ run = "InProgress"
    /\ pc[t] = "settled"
    /\ LockFree(lock)
    /\ lock' = t
    /\ cache' = Upsert(cache, EntryOf(t, results[t][Len(results[t])]))
    /\ buf' = [buf EXCEPT ![t] = cache']
    /\ pc' = [pc EXCEPT ![t] = "writing"]
    /\ UNCHANGED <<file, prev, args, concurrency, targets, batch, run, error, snapshot,
                   tstate, results, delays, admitted, report>>

\* record(), second half: the temporary file replaces the cache file, the
\* writer leaves; the worker contributes the Outcome to the BatchReport.
RecordCommit(t) ==
    /\ run = "InProgress"
    /\ pc[t] = "writing"
    /\ file' = OkFile(buf[t])
    /\ lock' = IF lock = t THEN None ELSE lock
    /\ buf' = [buf EXCEPT ![t] = {}]
    /\ pc' = [pc EXCEPT ![t] = "done"]
    /\ LET last == results[t][Len(results[t])]
       IN /\ tstate' = [tstate EXCEPT ![t] = IF last.ok THEN "Succeeded" ELSE "Failed"]
          /\ report' = [attempted |-> report.attempted + 1,
                        succeeded |-> report.succeeded + (IF last.ok THEN 1 ELSE 0),
                        failed |-> IF last.ok THEN report.failed
                                   ELSE report.failed \cup {<<t, last.err>>}]
    /\ UNCHANGED <<prev, args, concurrency, targets, batch, run, error, snapshot,
                   cache, results, delays, admitted>>

\* Every target of the list is terminal: the run is Completed (4.6 rule 4).
Finish ==
    /\ run = "InProgress"
    /\ \A t \in Listed : tstate[t] \in Terminal
    /\ run' = "Completed"
    /\ UNCHANGED <<file, prev, args, concurrency, targets, batch, error, snapshot,
                   cache, tstate, pc, results, delays, admitted, lock, buf, report>>

\* The call has returned (the report or the fatal error): the process exits.
Exit ==
    /\ run \in {"Completed", "Aborted"}
    /\ prev' = IF run = "Completed" THEN SucceededNow ELSE prev
    /\ file' = file
    /\ MemReset("NotStarted", None, NoArgs)

\* The process is terminated: memory is lost, the cache file stays.
Crash ==
    /\ run = "InProgress"
    /\ prev' = SucceededNow
    /\ file' = file
    /\ MemReset("NotStarted", None, NoArgs)

\* Between runs the file is damaged or removed by something else.
Damage ==
    /\ run = "NotStarted"
    /\ file.st = "ok"
    /\ file' = CorruptFile
    /\ prev' = {}
    /\ UNCHANGED memvars

Delete ==
    /\ run = "NotStarted"
    /\ file.st # "absent"
    /\ file' = AbsentFile
    /\ prev' = {}
    /\ UNCHANGED memvars

Next ==
    \/ \E a \in ArgsInputs, c \in ConcurrencyInputs : Start(a, c) /\ UNCHANGED <<call, create>>
    \/ \E t \in TargetIds : Dispatch(t) /\ UNCHANGED <<call, create>>
    \/ \E t \in TargetIds : Acquire(t) /\ UNCHANGED <<call, create>>
    \/ WindowRoll /\ UNCHANGED <<call, create>>
    \/ \E t \in TargetIds, healthy \in BOOLEAN : Attempt(t, healthy) /\ UNCHANGED <<call, create>>
    \/ \E t \in TargetIds : RecordBegin(t) /\ UNCHANGED <<call, create>>
    \/ \E t \in TargetIds : RecordCommit(t) /\ UNCHANGED <<call, create>>
    \/ Finish /\ UNCHANGED <<call, create>>
    \/ Exit /\ UNCHANGED <<call, create>>
    \/ Crash /\ UNCHANGED <<call, create>>
    \/ Damage /\ UNCHANGED <<call, create>>
    \/ Delete /\ UNCHANGED <<call, create>>

Spec == Init /\ [][Next]_vars

\* ------------------------------------------------- the run under fairness
\* One call, on a cache file that earlier runs left behind. Workers are
\* scheduled fairly, every attempt returns, the limiter's window keeps
\* rolling; the process is not killed and the file is left alone.
LiveFiles ==
    {AbsentFile,
     OkFile({[id |-> "A", kind |-> "Success", error |-> None]}),
     OkFile({[id |-> "A", kind |-> "Failure", error |-> "send rpc error"],
             [id |-> "B", kind |-> "Success", error |-> None]})}

LiveInit ==
    /\ file \in LiveFiles
    /\ prev = {}
    /\ args = NoArgs
    /\ concurrency = 0
    /\ targets = <<>>
    /\ batch = NoBatch
    /\ run = "NotStarted"
    /\ error = None
    /\ snapshot = {}
    /\ cache = {}
    /\ tstate = [t \in TargetIds |-> "Absent"]
    /\ pc = [t \in TargetIds |-> "idle"]
    /\ results = [t \in TargetIds |-> <<>>]
    /\ delays = [t \in TargetIds |-> <<>>]
    /\ admitted = 0
    /\ lock = None
    /\ buf = [t \in TargetIds |-> {}]
    /\ report = EmptyReport
    /\ call = NoCall
    /\ create = NoCreate

LiveNext ==
    \/ \E a \in ArgsInputs, c \in ConcurrencyInputs : Start(a, c) /\ UNCHANGED <<call, create>>
    \/ \E t \in TargetIds : Dispatch(t) /\ UNCHANGED <<call, create>>
    \/ \E t \in TargetIds : Acquire(t) /\ UNCHANGED <<call, create>>
    \/ WindowRoll /\ UNCHANGED <<call, create>>
    \/ \E t \in TargetIds, healthy \in BOOLEAN : Attempt(t, healthy) /\ UNCHANGED <<call, create>>
    \/ \E t \in TargetIds : RecordBegin(t) /\ UNCHANGED <<call, create>>
    \/ \E t \in TargetIds : RecordCommit(t) /\ UNCHANGED <<call, create>>
    \/ Finish /\ UNCHANGED <<call, create>>

Fairness ==
    /\ \A t \in TargetIds :
          /\ WF_vars(Dispatch(t) /\ UNCHANGED <<call, create>>)
          /\ WF_vars(Acquire(t) /\ UNCHANGED <<call, create>>)
          /\ WF_vars((\E healthy \in BOOLEAN : Attempt(t, healthy)) /\ UNCHANGED <<call, create>>)
          /\ WF_vars(RecordBegin(t) /\ UNCHANGED <<call, create>>)
          /\ WF_vars(RecordCommit(t) /\ UNCHANGED <<call, create>>)
    /\ WF_vars(WindowRoll /\ UNCHANGED <<call, create>>)
    /\ WF_vars(Finish /\ UNCHANGED <<call, create>>)

LiveSpec == LiveInit /\ [][LiveNext]_vars /\ Fairness


\* =====================================================================
\* ActionSpec: the action called on its own
\* =====================================================================
ActionMints == {"A", "B", "not-base58", ""}
ActionKeypairs == {"kp1", "kp2"}

InvokeOne(m, k, rpc) ==
    /\ LET a == [client |-> Client, keypair |-> k, mint_account |-> m]
       IN call' = [st |-> "returned", via |-> "set_token_standard_one", args |-> a,
                   rpc |-> rpc, ret |-> set_token_standard_one(a, rpc)]
    /\ UNCHANGED <<batchvars, create>>

InvokeAction(m, k, rpc) ==
    /\ LET a == [client |-> Client, keypair |-> k, mint_account |-> m]
       IN call' = [st |-> "returned", via |-> "action", args |-> a,
                   rpc |-> rpc, ret |-> action(a, rpc)]
    /\ UNCHANGED <<batchvars, create>>

ActionNext ==
    \/ \E m \in ActionMints, k \in ActionKeypairs, rpc \in RpcAnswers : InvokeOne(m, k, rpc)
    \/ \E m \in ActionMints, k \in ActionKeypairs, rpc \in RpcAnswers : InvokeAction(m, k, rpc)

ActionSpec == Init /\ [][ActionNext]_vars

\* =====================================================================
\* create/methods.rs : create_fungible, create_master_edition
\* =====================================================================
CreateOps == {"create_fungible", "create_master_edition"}
Blockhashes == {"h1", "h2"}
SendErrors == {"transport error", "blockhash not found"}
SendOutcomes == {[ok |-> TRUE, sig |-> "sig", e |-> None]}
                    \cup {[ok |-> FALSE, sig |-> None, e |-> e] : e \in SendErrors}

\* Exponential::from_millis_with_factor(250, 2.0).take(3)
RetryBaseMs == 250
RetryFactor == 2
RetryTake == 3
RetryDelays == [k \in 1..RetryTake |-> RetryBaseMs * Pow(RetryFactor, k - 1)]

\* The signers of Transaction::new_signed_with_payer.
Signers(op) ==
    IF op = "create_fungible" THEN <<"keypair", "mint">> ELSE <<"keypair", "mint_authority">>

\* The lines printed after `let sig = res?`.
SuccessLines(op) ==
    IF op = "create_fungible" THEN <<"Signature", "Mint", "Metadata">>
    ELSE <<"Signature", "Edition">>

\* Mutant: every attempt signs again over a newly fetched blockhash.
TxToSendMut(c) == [c.tx EXCEPT !.blockhash = "refetched"]

\* The closure handed to retry(): it sends the transaction built before.
TxToSend(c) == c.tx

\* The call up to retry(): the fallible set-up steps, get_latest_blockhash,
\* and the one signing of the transaction.
CreateCall(op, setup_ok, bh) ==
    /\ create.pc = "idle"
    /\ IF ~setup_ok
       THEN create' = [NoCreate EXCEPT !.op = op, !.pc = "returned",
                                       !.result = [ok |-> FALSE, e |-> "setup error"]]
       ELSE IF bh = None
       THEN create' = [NoCreate EXCEPT !.op = op, !.pc = "returned",
                                       !.result = [ok |-> FALSE, e |-> "blockhash rpc error"]]
       ELSE create' = [NoCreate EXCEPT !.op = op, !.pc = "sending", !.blockhash = bh,
                                       !.signed = 1,
                                       !.tx = [instructions |-> op, payer |-> "keypair",
                                               signers |-> Signers(op), blockhash |-> bh]]
    /\ UNCHANGED <<batchvars, call>>

\* One round of retry(): send; on Ok return and print; on Err take the next
\* delay and sleep, or return the error when the delays are used up.
CreateSend(out) ==
    /\ create.pc = "sending"
    /\ LET sends == Append(create.sends, TxToSend(create))
           outcomes == Append(create.outcomes, out)
       IN IF out.ok
          THEN create' = [create EXCEPT !.sends = sends, !.outcomes = outcomes,
                                        !.pc = "returned",
                                        !.result = [ok |-> TRUE, e |-> None],
                                        !.printed = SuccessLines(create.op)]
          ELSE IF Len(create.slept) < Len(RetryDelays)
          THEN create' = [create EXCEPT !.sends = sends, !.outcomes = outcomes,
                                        !.slept = Append(@, RetryDelays[Len(@) + 1])]
          ELSE create' = [create EXCEPT !.sends = sends, !.outcomes = outcomes,
                                        !.pc = "returned",
                                        !.result = [ok |-> FALSE, e |-> out.e]]
    /\ UNCHANGED <<batchvars, call>>

CreateNext ==
    \/ \E op \in CreateOps, setup_ok \in BOOLEAN, bh \in Blockhashes \cup {None} :
          CreateCall(op, setup_ok, bh)
    \/ \E out \in SendOutcomes : CreateSend(out)

CreateSpec == Init /\ [][CreateNext]_vars

\* =====================================================================
\* Properties of the batch run (Spec)
\* =====================================================================
LastResult(t) == results[t][Len(results[t])]
AllFailed(t) == \A i \in 1..Len(results[t]) : ~results[t][i].ok
EntriesFor(c, t) == {e \in c : e.id = t}
NonDecreasing(s) == \A i \in 1..(Len(s) - 1) : s[i] =< s[i + 1]
Recorded(t) == pc[t] = "done"
NotSkipped == {t \in Range(targets) : tstate[t] # "Skipped"}

\* C1  Resumability: a target of the list is Skipped, with no call of its
\* Action, exactly when the snapshot taken at the start records Success for
\* it; every other target is attempted. A target that Succeeded in the
\* preceding run on the same, unchanged cache file is Skipped and contributes
\* no attempt to the report.
Resumability ==
    run \in {"InProgress", "Completed"} =>
        /\ \A t \in Range(targets) :
              /\ (tstate[t] = "Skipped") <=> Has(snapshot, t, "Success")
              /\ tstate[t] = "Skipped" => results[t] = <<>> /\ pc[t] = "idle"
              /\ (run = "Completed" /\ ~Has(snapshot, t, "Success")) => Len(results[t]) >= 1
              /\ t \in prev => tstate[t] = "Skipped" /\ results[t] = <<>>
        /\ report.attempted = Cardinality({t \in NotSkipped : Recorded(t)})
        /\ run = "Completed" => report.attempted = Cardinality(NotSkipped)

ResumabilityWitness ==
    /\ run = "Completed"
    /\ \E t \in Range(targets) : t \in prev /\ tstate[t] = "Skipped"
    /\ \E t \in Range(targets) : Has(snapshot, t, "Failure") /\ Len(results[t]) >= 1
    /\ \E t \in Range(targets) : ~HasEntry(snapshot, t) /\ Len(results[t]) >= 1

\* C2  No-loss: at Completed the cache, in memory and on disk, holds exactly
\* one entry for every target of the input list; no cache ever holds two
\* entries for one TargetId.
NoLoss ==
    /\ run = "Completed" =>
          \A t \in Range(targets) :
              /\ Cardinality(EntriesFor(cache, t)) = 1
              /\ Cardinality(EntriesFor(file.entries, t)) = 1
    /\ \A t \in TargetIds :
          /\ Cardinality(EntriesFor(cache, t)) =< 1
          /\ Cardinality(EntriesFor(file.entries, t)) =< 1
          /\ \A w \in TargetIds : Cardinality(EntriesFor(buf[w], t)) =< 1

NoLossWitness ==
    /\ run = "Completed"
    /\ Len(targets) = 3
    /\ \E t \in Range(targets) : tstate[t] = "Skipped"
    /\ \E t \in Range(targets) : tstate[t] = "Succeeded" /\ Has(snapshot, t, "Failure")
    /\ \E t \in Range(targets) : tstate[t] = "Failed"

Isolation ==
    run \in {"InProgress", "Completed"} =>
        /\ \A t \in Range(targets) :
              /\ tstate[t] = "Succeeded" <=> (Recorded(t) /\ LastResult(t).ok)
              /\ tstate[t] = "Failed" <=>
                    (Recorded(t) /\ AllFailed(t) /\ Len(results[t]) = args.retries)
        /\ report.attempted = report.succeeded + Cardinality(report.failed)
        /\ report.succeeded = Cardinality({t \in Range(targets) : tstate[t] = "Succeeded"})
        /\ report.failed =
              {<<t, ActionFailed(t, LastResult(t).err.reason)>> :
                  t \in {x \in Range(targets) : tstate[x] = "Failed"}}
        /\ ( /\ run = "Completed"
             /\ targets = <<"A", "B", "C">>
             /\ snapshot = {}
             /\ args.retries = 2
             /\ AllFailed("A")
             /\ results["B"] # <<>> /\ LastResult("B").ok
             /\ results["C"] # <<>> /\ LastResult("C").ok )
           => /\ report = [attempted |-> 3, succeeded |-> 2,
                           failed |-> {<<"A", ActionFailed("A", "send rpc error")>>}]
              /\ Cardinality(cache) = 3
              /\ Cardinality(file.entries) = 3

IsolationWitness ==
    /\ run = "Completed"
    /\ concurrency = 3
    /\ targets = <<"A", "B", "C">>
    /\ snapshot = {}
    /\ args.retries = 2
    /\ Len(results["A"]) = 2 /\ AllFailed("A")
    /\ results["B"] = <<[ok |-> TRUE, err |-> None]>>
    /\ results["C"] = <<[ok |-> TRUE, err |-> None]>>
    /\ report.attempted = 3

\* C5  Crash-resume: at every point of a run (so at any crash) the cache
\* file holds exactly the snapshot's entries overlaid with the outcomes of the
\* record() calls that have returned; the run itself attempts exactly the
\* listed targets the file did not record as Success when it started, and no
\* target that was Succeeded when the preceding run ended or crashed is
\* attempted again.
Persisted ==
    {e \in snapshot : ~Recorded(e.id)}
        \cup {EntryOf(t, LastResult(t)) : t \in {x \in TargetIds : Recorded(x)}}

CrashResume ==
    run = "InProgress" =>
        /\ file.entries = Persisted
        /\ (file.st = "ok") <=> (Persisted # {})
        /\ \A t \in Range(targets) :
              /\ (tstate[t] # "Skipped") <=>
                    (~HasEntry(snapshot, t) \/ Has(snapshot, t, "Failure"))
              /\ Len(results[t]) >= 1 => ~Has(snapshot, t, "Success") /\ t \notin prev

CrashResumeWitness ==
    /\ run = "InProgress"
    /\ prev # {}
    /\ \E t \in Range(targets) : t \in prev /\ tstate[t] = "Skipped"
    /\ \E t \in Range(targets) : Has(snapshot, t, "Failure") /\ Recorded(t)
    /\ \E t \in Range(targets) : ~HasEntry(snapshot, t) /\ tstate[t] \in {"Pending", "Running"}

\* C7  No lost update: at most one worker is inside record(); once a
\* worker's record() has returned its outcome is in the in-memory cache and
\* in the cache file, whatever the other workers did in between; with no
\* writer inside, memory and file agree.
Writers == {t \in TargetIds : pc[t] = "writing"}

NoLostUpdate ==
    run \in {"InProgress", "Completed"} =>
        /\ Cardinality(Writers) =< 1
        /\ \A t \in Writers : lock = t
        /\ \A t \in TargetIds :
              Recorded(t) =>
                  /\ EntryOf(t, LastResult(t)) \in cache
                  /\ EntryOf(t, LastResult(t)) \in file.entries
        /\ Writers = {} => file.entries = cache

NoLostUpdateWitness ==
    /\ run = "InProgress"
    /\ concurrency = 3
    /\ Cardinality({t \in TargetIds : Recorded(t)}) = 2
    /\ Cardinality(Writers) = 1
    /\ Cardinality(file.entries) = 2
    /\ Cardinality(cache) = 3

\* C8  Fatal errors abort before any work: a call whose target list cannot
\* be resolved returns InvalidInput, one whose cache file is unparsable
\* returns CacheCorrupt; in both cases no Action is invoked and the file is
\* untouched. An absent cache file with a usable list starts the run from an
\* empty cache.
NoSource(a) == a.mint_list.kind = "none" /\ a.cache_file = None
ZeroEntries(a) == a.mint_list.kind = "list" /\ a.mint_list.ids = <<>>
Unreadable(a, fs) ==
    \/ a.mint_list.kind = "unreadable"
    \/ a.mint_list.kind = "none" /\ a.cache_file # None /\ fs.st # "ok"
UsableList(a) == a.mint_list.kind = "list" /\ a.mint_list.ids # <<>>
NothingDone ==
    /\ \A t \in TargetIds : results[t] = <<>> /\ tstate[t] = "Absent"
    /\ report = EmptyReport

FatalAbort ==
    /\ [][(run = "NotStarted" /\ run' # "NotStarted") =>
            /\ (NoSource(args') \/ ZeroEntries(args') \/ Unreadable(args', file)) =>
                  run' = "Aborted" /\ error' = "InvalidInput" /\ file' = file
            /\ (UsableList(args') /\ file.st = "corrupt") =>
                  run' = "Aborted" /\ error' = "CacheCorrupt" /\ file' = file
            /\ (UsableList(args') /\ file.st = "absent") =>
                  run' = "InProgress" /\ error' = None /\ cache' = {} /\ file' = file
            /\ run' = "Aborted" => NothingDone']_vars
    /\ [][run = "Aborted" => (run' = "NotStarted" /\ file' = file)]_vars
    /\ [](run = "Aborted" => NothingDone /\ error \in {"InvalidInput", "CacheCorrupt"})

FatalAbortWitness ==
    /\ run = "Aborted"
    /\ error = "CacheCorrupt"
    /\ file.st = "corrupt"
    /\ args.mint_list.kind = "list"


\* =====================================================================
\* Properties of the run under fairness (LiveSpec)
\* =====================================================================

\* C6  Completion: every Pending target eventually is Succeeded or Failed and
\* every run in progress eventually is Completed, whatever the targets'
\* outcomes; a run in progress is never aborted, and within a run a target in
\* a terminal state keeps that state.
Completion ==
    /\ \A t \in TargetIds :
          (tstate[t] = "Pending") ~> (tstate[t] \in {"Succeeded", "Failed"})
    /\ (run = "InProgress") ~> (run = "Completed")
    /\ [][run = "InProgress" => run' \in {"InProgress", "Completed"}]_vars
    /\ [][\A t \in TargetIds :
            (tstate[t] \in Terminal /\ run' \in {"InProgress", "Completed"})
                => tstate'[t] = tstate[t]]_vars

CompletionWitness ==
    /\ run = "Completed"
    /\ Len(targets) = 3
    /\ \E t \in Range(targets) : tstate[t] = "Skipped"
    /\ \A t \in Range(targets) : tstate[t] \in {"Skipped", "Failed"}
    /\ args.rate_limit = 1
    /\ concurrency = 3


\* =====================================================================
\* Properties of one action call (ActionSpec)
\* =====================================================================
Steps == <<"from_str", "get_account", "get_latest_blockhash", "send_and_confirm_transaction">>

FirstFailure(a, rpc) ==
    IF a.mint_account \notin ValidPubkeys THEN 1
    ELSE IF ~rpc.account.ok THEN 2
    ELSE IF ~rpc.blockhash.ok THEN 3
    ELSE IF ~rpc.send.ok THEN 4
    ELSE 0

FailureText(rpc, k) ==
    IF k = 1 THEN "Invalid Base58 string"
    ELSE IF k = 2 THEN rpc.account.e
    ELSE IF k = 3 THEN rpc.blockhash.e
    ELSE rpc.send.e

\* C9  One call of the action performs its steps in the order parse mint,
\* fetch edition account, fetch blockhash, send, each at most once; it stops
\* at the first failing step, so it hands at most one transaction to the node
\* and none after an earlier failure; every failure comes back as
\* ActionFailed with the mint_account string and the failing step's text.
OneShot ==
    call.st = "returned" =>
        LET k == FirstFailure(call.args, call.rpc)
            r == call.ret
        IN /\ Len(r.sent) =< 1
           /\ IsPrefix(r.calls, Steps)
           /\ k = 0 => /\ r.ok
                       /\ r.err = None
                       /\ r.calls = Steps
                       /\ Len(r.sent) = 1
           /\ k > 0 => /\ ~r.ok
                       /\ r.calls = SubSeq(Steps, 1, k)
                       /\ Len(r.sent) = (IF k = 4 THEN 1 ELSE 0)
                       /\ r.err = [kind |-> "ActionFailed",
                                   target |-> call.args.mint_account,
                                   reason |-> FailureText(call.rpc, k)]
           /\ call.via = "action" => r.sig = None

OneShotWitness ==
    /\ call.st = "returned"
    /\ call.via = "action"
    /\ call.args.mint_account = "A"
    /\ call.rpc.account.ok
    /\ ~call.rpc.blockhash.ok
    /\ call.rpc.send.ok
    /\ call.ret.sent = <<>>
    /\ call.ret.err.reason = "blockhash rpc error"

\* =====================================================================
\* Properties of the create calls (CreateSpec)
\* =====================================================================
CreateAllFailed == \A i \in 1..Len(create.outcomes) : ~create.outcomes[i].ok

\* C10  create_fungible and create_master_edition sign one transaction over
\* one blockhash before the retry loop and send that same transaction on
\* every attempt; there are at most 4 attempts, separated by sleeps of 250,
\* 500 and 1000 ms, none after the first success; when all 4 fail the last
\* error is returned and no success line is printed.
SingleShotRetry ==
    create.pc # "idle" =>
        /\ create.signed =< 1
        /\ Len(create.sends) =< 4
        /\ Len(create.sends) = Len(create.outcomes)
        /\ \A i \in 1..Len(create.sends) :
              /\ create.sends[i] = create.tx
              /\ create.sends[i].blockhash = create.blockhash
        /\ create.slept = SubSeq(<<250, 500, 1000>>, 1, Len(create.slept))
        /\ \A i \in 1..(Len(create.outcomes) - 1) : ~create.outcomes[i].ok
        /\ create.pc = "sending" =>
              /\ create.signed = 1
              /\ CreateAllFailed
              /\ Len(create.slept) = Len(create.sends)
              /\ create.printed = <<>>
        /\ (create.pc = "returned" /\ create.sends # <<>> /\ CreateAllFailed) =>
              /\ Len(create.sends) = 4
              /\ create.slept = <<250, 500, 1000>>
              /\ create.result = [ok |-> FALSE, e |-> create.outcomes[4].e]
              /\ create.printed = <<>>
        /\ (create.pc = "returned" /\ ~CreateAllFailed) =>
              /\ create.result.ok
              /\ Len(create.slept) = Len(create.sends) - 1
              /\ create.printed = SuccessLines(create.op)
        /\ (create.pc = "returned" /\ create.sends = <<>>) =>
              ~create.result.ok /\ create.printed = <<>>

SingleShotRetryWitness ==
    /\ create.pc = "returned"
    /\ create.op = "create_master_edition"
    /\ Len(create.sends) = 4
    /\ CreateAllFailed
    /\ create.outcomes[1].e # create.outcomes[4].e
    /\ ~create.result.ok

====
